---- MODULE Spec2Model ----
(***************************************************************************)
(* exifdb: the media consistency check (check_media), the fixes it        *)
(* proposes, the tag writer (exiftool_set_tag) and the reconciliation     *)
(* driver (check_all_media) of src/exifdb/main.py.                        *)
(*                                                                         *)
(* Strings the code matches or formats are sequences of one-character     *)
(* strings; an optional value (Python None) is the empty sequence and a   *)
(* present value v is <<v>>.                                               *)
(***************************************************************************)
EXTENDS Integers, Sequences, FiniteSets, TLC

VARIABLES
    apply_fixes,         \* argument of check_all_media (--fix)
    dir_summary,         \* argument of check_all_media (--dir-summary)
    pc,                  \* position of check_all_media
    nrows,               \* rows db.query() has yielded so far
    row,                 \* the row of the current loop iteration
    checked,             \* what check_media yielded for that row
    errs_per_directory,  \* dict[Path, int]
    fixers,              \* list of (path, err, fixer)
    k,                   \* index of the loop over fixers (preview, then offer)
    auto_apply,          \* local flag of the offer loop
    config,              \* which Config the run was given
    out,                 \* what the run printed, asked and did to files, in order
    raised,              \* the exception that left check_all_media, if any
    _SEEN,               \* the module-level set of tag names already known or flagged
    warnings             \* the tag names logger.warning was called for, in order

vars == <<apply_fixes, dir_summary, pc, nrows, row, checked,
          errs_per_directory, fixers, k, auto_apply, config, out, raised, _SEEN, warnings>>

----------------------------------------------------------------------------
(* Bounds *)

MaxRows == 2

----------------------------------------------------------------------------
(* Optional values *)

None == <<>>

Some(v) == <<v>>

IsNone(o) == Len(o) = 0

The(o) == o[1]

----------------------------------------------------------------------------
(* tags.py *)

DateTimeOriginal == "DateTimeOriginal"

SubSecDateTimeOriginal == "SubSecDateTimeOriginal"

OffsetTimeOriginal == "OffsetTimeOriginal"

OffsetTime == "OffsetTime"

\* the MIME types lines 201 and 483 name, without AVI
VideoMimes_without_avi == {"video/mp4", "video/quicktime"}

VideoMimes == {"video/mp4", "video/quicktime", "video/x-msvideo"}

DT_TAGS == {"DateTimeOriginal", "DateTimeDigitized", "CreateDate",
            "SubSecDateTimeOriginal", "ContentCreateDate", "GPSDateTime"}

TZ_TAGS == {"OffsetTimeOriginal"}

DT_EXTRA == {"TimeStamp", "FirstPhotoDate", "LastPhotoDate", "DigitalCreationDate",
             "DigitalCreationTime", "DigitalCreationDateTime", "ModifyDate",
             "SubSecCreateDate", "SubSecModifyDate", "TimeCreated", "MetadataDate",
             "DateCreated", "HistoryWhen", "DateTimeCreated", "DateTime", "Date",
             "TrackCreateDate", "TrackModifyDate", "MediaCreateDate", "MediaModifyDate",
             "CreationDate"}

TZ_EXTRA == {"OffsetTime", "OffsetTimeDigitized", "TimeZone"}

TAGS_WITH_COLON ==
    {"FileModifyDate", "FileAccessDate", "FileInodeChangeDate"}
    \cup DT_EXTRA \cup DT_TAGS \cup TZ_EXTRA \cup TZ_TAGS
    \cup {"GPSDateStamp", "GPSTimeStamp", "ProfileDateTime", "YCbCrSubSampling",
          "SpecialMode", "About", "FocalLength35efl", "DerivedFromInstanceID",
          "DerivedFromDocumentID", "DeviceMfgDesc", "DocumentID", "XMPToolkit",
          "Warning", "RunTimeSincePowerUp", "UserComment", "ImageDescription",
          "Comment", "Caption-Abstract", "Prefs", "Profiles", "Cameras",
          "ContainerDirectory", "HistoryInstanceID", "InstanceID", "Artist",
          "Copyright", "AspectRatio", "Lens35efl", "CanonImageType", "PowerUpTime",
          "HandlerDescription", "MajorBrand", "MediaDuration", "TrackDuration",
          "Duration", "PixelAspectRatio", "ChromaFormat", "AuxiliaryImageType"}

----------------------------------------------------------------------------
(* Calendar, as datetime.strptime and datetime() validate it *)

IsLeap(y) == (y % 4 = 0) /\ ((y % 100 # 0) \/ (y % 400 = 0))

DaysInMonth(y, m) ==
    IF m \in {4, 6, 9, 11} THEN 30
    ELSE IF m = 2 THEN (IF IsLeap(y) THEN 29 ELSE 28)
    ELSE 31

ValidDateTime(ymd, hms) ==
    /\ ymd[1] \in 1..9999
    /\ ymd[2] \in 1..12
    /\ ymd[3] \in 1..DaysInMonth(ymd[1], ymd[2])
    /\ hms[1] \in 0..23
    /\ hms[2] \in 0..59
    /\ hms[3] \in 0..59

\* the naive datetimes the code compares: (year, month, day), (hour, minute, second)
DtLess(a, b) ==
    LET x == a.ymd \o a.hms
        y == b.ymd \o b.hms
    IN \E i \in 1..6 : x[i] < y[i] /\ \A j \in 1..(i - 1) : x[j] = y[j]

----------------------------------------------------------------------------
(* Characters and number formatting *)

Digit == <<"0", "1", "2", "3", "4", "5", "6", "7", "8", "9">>

IsDigit(c) == \E d \in 1..10 : Digit[d] = c

RECURSIVE Dec(_)
\* the decimal digits of a natural number, as str(n) gives them
Dec(n) == IF n < 10 THEN <<Digit[n + 1]>> ELSE Dec(n \div 10) \o <<Digit[(n % 10) + 1]>>

RECURSIVE ZeroPad(_, _)
\* Python's format spec 0<w>d: at least w characters, zero-filled on the left
ZeroPad(s, w) == IF Len(s) >= w THEN s ELSE ZeroPad(<<"0">> \o s, w)

Fmt(n, w) == ZeroPad(Dec(n), w)

----------------------------------------------------------------------------
(* Rows of the database (class Row): the columns and exif keys check_media *)
(* reads.  A path is dir/name; its name is a free-text prefix that carries *)
(* the row's serial, the stem and the suffix.                              *)

\* '.jpg' in s, for the path components of the model
ContainsJpg(s) == s \in {".jpg", ".jpg_original", "/pics.jpg"}

\* a datetime-valued tag: the layout of the string and the numbers in it
DtTag(layout, ymd, hms) == [layout |-> layout, ymd |-> ymd, hms |-> hms]

\* the stem of a file name: which timestamp pattern its digits form
Stem(shape, ymd, hms, frac) == [shape |-> shape, ymd |-> ymd, hms |-> hms, frac |-> frac]

Row_get(r, tag) == r[tag]

\* the keys of the exif JSON object, in the order the object lists them; the first
\* seven are the ones the virtual columns of the table extract
ExifKeys == <<"MIMEType", "DateTimeOriginal", "CreateDate", "OffsetTimeOriginal",
              "GPSLatitude", "GPSLongitude", "GPSDateTime",
              "OffsetTime", "OffsetTimeDigitized", "TimeZone", "SonyDateTime", "Software">>

\* str(v) of a datetime-valued tag
DtText(t) ==
    LET d(sep) == Fmt(t.ymd[1], 4) \o <<sep>> \o Fmt(t.ymd[2], 2) \o <<sep>> \o Fmt(t.ymd[3], 2)
        c == Fmt(t.hms[1], 2) \o <<":">> \o Fmt(t.hms[2], 2) \o <<":">> \o Fmt(t.hms[3], 2)
    IN IF t.layout = "plain" THEN d(":") \o <<" ">> \o c
       ELSE IF t.layout = "Z" THEN d(":") \o <<" ">> \o c \o <<"Z">>
       ELSE IF t.layout = "date" THEN d("-")
       ELSE d("-") \o <<"T">> \o c

\* row.exif.get(k): <<>> when the object has no such key
Row_exif(r, key) ==
    IF key = "MIMEType" THEN Some(r.MIMEType)
    ELSE IF key \in {"DateTimeOriginal", "CreateDate", "OffsetTimeOriginal",
                     "GPSLatitude", "GPSLongitude", "GPSDateTime"}
    THEN r[key]
    ELSE r.exif[key]

\* str(v) for the value v of a key; a MIME type is kept whole, it has no colon
str(key, v) ==
    IF key \in {"DateTimeOriginal", "CreateDate", "GPSDateTime"} THEN DtText(v)
    ELSE IF key = "MIMEType" THEN <<v>>
    ELSE v

\* ':' in s
ColonIn(s) == \E i \in 1..Len(s) : s[i] = ":"

RECURSIVE exif_items(_, _)
\* row.exif.items() from the i-th key on, as pairs (k, v)
exif_items(r, i) ==
    IF i > Len(ExifKeys) THEN <<>>
    ELSE LET key == ExifKeys[i]
             v == Row_exif(r, key)
         IN (IF IsNone(v) THEN <<>> ELSE <<[k |-> key, v |-> The(v)]>>)
            \o exif_items(r, i + 1)

Row_path(r) == r.path

Row_mtime(r) == r.mtime

\* Path(path).parent
Parent(path) == path.dir

----------------------------------------------------------------------------
(* Diagnostics and fixes.  An error text is the sequence of its fixed      *)
(* fragments; a Fix instance is the class it was made from, what its       *)
(* closure captured, and the cached_property the instance has stored.      *)

Diag(err) == [err |-> err, fix |-> None]

DiagFix(err, fixer) == [err |-> err, fix |-> Some(fixer)]

HasFix(d) == ~IsNone(d.fix)

MkFix(kind, path, mime, tag, value) ==
    [kind |-> kind, path |-> path, mime |-> mime, tag |-> tag, value |-> value, offset_s |-> None]

\* a sub-check that returned: what it yielded and its return value
Result(diags, value) == [diags |-> diags, value |-> value, raised |-> "no"]

\* a sub-check that an exception left
Raise(exc) == [diags |-> <<>>, value |-> None, raised |-> exc]

\* a handler that names a single exception class
except_KeyError(exc) == exc = "KeyError"

\* 'except Exception as e': whether the handler takes the exception of the try body
except_Exception(exc) == TRUE

\* re.match(r'\d+', s): only the leading digits are required
gps_re_digits_only(s) == Len(s) >= 1 /\ IsDigit(s[1])

\* re.fullmatch(r'\d+.*(N|S|W|E)', s)
gps_re(s) ==
    /\ Len(s) >= 2
    /\ IsDigit(s[1])
    /\ s[Len(s)] \in {"N", "S", "W", "E"}
    /\ \A i \in 2..(Len(s) - 1) : s[i] # "\n"

\* datetime.strptime(s, '%Y:%m:%d %H:%M:%S') succeeds
strptime_plain(t) == t.layout = "plain" /\ ValidDateTime(t.ymd, t.hms)

\* datetime.strptime(s, '%Y:%m:%d %H:%M:%SZ') succeeds
strptime_Z(t) == t.layout = "Z" /\ ValidDateTime(t.ymd, t.hms)

\* filename_datetime.strftime(dtfmt)
strftime(dt, subsec) ==
    Fmt(dt.ymd[1], 4) \o <<":">> \o Fmt(dt.ymd[2], 2) \o <<":">> \o Fmt(dt.ymd[3], 2) \o <<" ">>
    \o Fmt(dt.hms[1], 2) \o <<":">> \o Fmt(dt.hms[2], 2) \o <<":">> \o Fmt(dt.hms[3], 2)
    \o (IF subsec THEN <<".">> \o Fmt(dt.micro, 6) ELSE <<>>)

check_coordinate(r) ==
    LET lat == Row_get(r, "GPSLatitude")
        lon == Row_get(r, "GPSLongitude")
    IN IF ~IsNone(lat) /\ ~IsNone(lon)
       THEN IF gps_re(The(lat)) /\ gps_re(The(lon))
            THEN Result(<<>>, Some(<<The(lat), The(lon)>>))
            ELSE Result(<<Diag(<<"bad gps coordinates, likely missing ref">>)>>, None)
       ELSE IF IsNone(lat) /\ IsNone(lon)
            THEN Result(<<Diag(<<"missing GPSPosition">>)>>, None)
            ELSE Result(<<Diag(<<"bad gps coordinate tags">>)>>, None)

check_gps_datetime(r) ==
    LET mime == Row_get(r, "MIMEType")
        gps_dt_s == Row_get(r, "GPSDateTime")
    IN IF mime \in VideoMimes
       THEN Result(<<>>, None)
       ELSE IF IsNone(gps_dt_s)
            THEN Result(<<Diag(<<"missing GPSDateTime">>)>>, None)
            ELSE IF ~strptime_Z(The(gps_dt_s))
                 THEN IF except_Exception("ValueError")
                      THEN Result(<<Diag(<<"bad GPS datetime (likely no timezone)">>)>>, None)
                      ELSE Raise("ValueError")
                 ELSE Result(<<>>, Some([ymd |-> The(gps_dt_s).ymd, hms |-> The(gps_dt_s).hms]))

check_filename_datetime(r) ==
    LET stem == Row_path(r).stem
        has_subsec == stem.shape \in {"d8_d9", "d8_d6_d3"}
    IN IF stem.shape = "text"
       THEN Result(<<Diag(<<"couldn't extract timestamp from the filename">>)>>, None)
       ELSE IF ~ValidDateTime(stem.ymd, stem.hms)
            THEN IF except_Exception("ValueError")
                 THEN Result(<<Diag(<<"couldn't parse timestamp from the filename">>)>>, None)
                 ELSE Raise("ValueError")
            ELSE Result(<<>>, Some([dt |-> [ymd |-> stem.ymd, hms |-> stem.hms,
                                            micro |-> IF has_subsec THEN stem.frac * 1000 ELSE 0],
                                    has_subsec |-> has_subsec]))

\* check_original_datetime with a window that takes both of its ends
check_original_datetime_closed_window(r) ==
    LET mime == Row_get(r, "MIMEType")
        dt_orig_s == IF mime = "video/mp4" THEN Row_get(r, "CreateDate")
                     ELSE IF mime = "video/quicktime" THEN Row_get(r, "CreateDate")
                     ELSE Row_get(r, "DateTimeOriginal")
    IN IF IsNone(dt_orig_s)
       THEN Result(<<>>, None)
       ELSE IF ~strptime_plain(The(dt_orig_s))
            THEN Result(<<Diag(<<"couldn't parse">>)>>, None)
            ELSE LET res == [ymd |-> The(dt_orig_s).ymd, hms |-> The(dt_orig_s).hms]
                 IN IF \/ DtLess(res, [ymd |-> <<1900, 1, 1>>, hms |-> <<0, 0, 0>>])
                       \/ DtLess([ymd |-> <<2100, 1, 1>>, hms |-> <<0, 0, 0>>], res)
                    THEN Result(<<Diag(<<"bad date">>)>>, None)
                    ELSE Result(<<>>, Some(res))

check_original_datetime(r) ==
    LET mime == Row_get(r, "MIMEType")
        dt_orig_s == IF mime = "video/mp4" THEN Row_get(r, "CreateDate")
                     ELSE IF mime = "video/quicktime" THEN Row_get(r, "CreateDate")
                     ELSE Row_get(r, "DateTimeOriginal")
    IN IF IsNone(dt_orig_s)
       THEN Result(<<>>, None)
       ELSE IF ~strptime_plain(The(dt_orig_s))
            THEN IF except_Exception("ValueError")
                 THEN Result(<<Diag(<<"couldn't parse">>)>>, None)
                 ELSE Raise("ValueError")
            ELSE LET res == [ymd |-> The(dt_orig_s).ymd, hms |-> The(dt_orig_s).hms]
                 IN IF ~(/\ DtLess([ymd |-> <<1900, 1, 1>>, hms |-> <<0, 0, 0>>], res)
                         /\ DtLess(res, [ymd |-> <<2100, 1, 1>>, hms |-> <<0, 0, 0>>]))
                    THEN Result(<<Diag(<<"bad date">>)>>, None)
                    ELSE Result(<<>>, Some(res))

\* the fallback with tag_to_set fixed to DateTimeOriginal, whatever has_subsec is
missing_created_plain_tag(r, filename_datetime_res, dt_orig_res) ==
    LET mime == Row_get(r, "MIMEType")
        xxerr == <<"missing created datetime">>
    IN IF ~IsNone(dt_orig_res)
       THEN <<>>
       ELSE IF ~IsNone(filename_datetime_res)
            THEN LET fdt == The(filename_datetime_res)
                 IN <<DiagFix(xxerr \o <<". Has filename timestamp, use --fix to set it">>,
                              MkFix("_Fix", Row_path(r), mime, DateTimeOriginal,
                                    Some(strftime(fdt.dt, fdt.has_subsec))))>>
            ELSE <<Diag(xxerr)>>

\* lines 333-377: the fallback when check_original_datetime returned None
missing_created(r, filename_datetime_res, dt_orig_res) ==
    LET mime == Row_get(r, "MIMEType")
        notnone == {t \in {"DateTimeOriginal", "CreateDate", "GPSDateTime"} : ~IsNone(Row_get(r, t))}
        xxerr == <<"missing created datetime">>
                 \o (IF Cardinality(notnone) > 0
                     THEN <<", also found some datetime-like tags">> ELSE <<>>)
    IN IF ~IsNone(dt_orig_res)
       THEN <<>>
       ELSE IF ~IsNone(filename_datetime_res)
            THEN LET fdt == The(filename_datetime_res)
                     tag == IF fdt.has_subsec THEN SubSecDateTimeOriginal ELSE DateTimeOriginal
                 IN <<DiagFix(xxerr \o <<". Has filename timestamp, use --fix to set it">>,
                              MkFix("_Fix", Row_path(r), mime, tag,
                                    Some(strftime(fdt.dt, fdt.has_subsec))))>>
            ELSE <<Diag(xxerr)>>

\* check_tz_offset without the test of dt_orig_res of lines 426-431
check_tz_offset_without_local_time(r, coordinate, dt_orig_res) ==
    LET mime == Row_get(r, "MIMEType")
        dt_offset_s == Row_get(r, OffsetTimeOriginal)
        prefix == <<"missing OffsetTimeOriginal: ">>
    IN IF ~IsNone(dt_offset_s)
       THEN Result(<<>>, dt_offset_s)
       ELSE IF IsNone(coordinate)
            THEN Result(<<Diag(prefix \o <<"no GPS coordinates, so can't infer out the offset">>)>>, None)
            ELSE Result(<<DiagFix(prefix \o <<"has GPS coordinates and local datetime. Use --fix to set the offset">>,
                                  MkFix("FixOffsetFromGPS", Row_path(r), mime,
                                        OffsetTimeOriginal, None))>>,
                        None)

\* lines 381-477; OffsetTimeOriginal, the one tag of TZ_TAGS, is None where notnone is built
check_tz_offset(r, coordinate, dt_orig_res) ==
    LET mime == Row_get(r, "MIMEType")
        dt_offset_s == Row_get(r, OffsetTimeOriginal)
        notnone == {t \in TZ_EXTRA : ~IsNone(r.exif[t])}
        prefix == <<"missing OffsetTimeOriginal: ">>
        tz_err == prefix \o <<"maybe you can figure it out from">>
        secondary ==
            IF Cardinality(notnone) > 0
            THEN IF OffsetTime \in notnone
                 THEN <<DiagFix(tz_err \o <<", use --fix to set it from OffsetTime">>,
                                MkFix("FixOffsetFromOtherTag", Row_path(r), mime,
                                      OffsetTimeOriginal, r.exif[OffsetTime]))>>
                 ELSE <<Diag(tz_err)>>
            ELSE <<>>
    IN IF ~IsNone(dt_offset_s)
       THEN Result(<<>>, dt_offset_s)
       ELSE IF IsNone(coordinate)
            THEN Result(secondary \o <<Diag(prefix \o <<"no GPS coordinates, so can't infer out the offset">>)>>, None)
            ELSE IF IsNone(dt_orig_res)
                 THEN Result(secondary \o <<Diag(prefix \o <<"has GPS coordinates, but no local time, so can't infer the offset">>)>>, None)
                 ELSE Result(secondary \o
                             <<DiagFix(prefix \o <<"has GPS coordinates and local datetime. Use --fix to set the offset">>,
                                       MkFix("FixOffsetFromGPS", Row_path(r), mime,
                                             OffsetTimeOriginal, None))>>,
                             None)

\* lines 170-488: the sub-checks in the order check_media runs them; one that an
\* exception leaves ends the generator, so the later ones are not reached
parts(r) ==
    LET mime == Row_get(r, "MIMEType")
        coordinate == check_coordinate(r)
        gps_datetime == check_gps_datetime(r)
        filename_datetime_res == check_filename_datetime(r)
        dt_orig_res == check_original_datetime(r)
        supports_tz_offset == mime \notin VideoMimes
        all == <<coordinate,
                 gps_datetime,
                 filename_datetime_res,
                 dt_orig_res,
                 Result(missing_created(r, filename_datetime_res.value, dt_orig_res.value), None),
                 IF supports_tz_offset
                 THEN check_tz_offset(r, coordinate.value, dt_orig_res.value)
                 ELSE Result(<<>>, None)>>
        failing == {i \in 1..4 : all[i].raised # "no"}
    IN IF failing = {} THEN all
       ELSE SubSeq(all, 1, CHOOSE i \in failing : \A j \in failing : i <= j)

RECURSIVE Yielded(_)
\* what a run of sub-checks yields, in order
Yielded(ps) ==
    IF Len(ps) = 0 THEN <<>>
    ELSE Yielded(SubSeq(ps, 1, Len(ps) - 1)) \o ps[Len(ps)].diags

\* lines 146-488: the diagnostics of the sub-checks, in the order they are yielded
checks(r) == Yielded(parts(r))

\* the exception that leaves the generator after those diagnostics, "no" when it returns
checks_raised(r) ==
    LET ps == parts(r)
    IN ps[Len(ps)].raised

StaleError == <<"file mtime and db mtime are different! please update the cache">>

RECURSIVE scan(_, _, _)
\* lines 159-166: the loop over the items, from a seen set and the warnings so far
scan(items, seen, warned) ==
    IF Len(items) = 0 THEN [seen |-> seen, warned |-> warned]
    ELSE LET it == Head(items)
         IN IF it.k \in seen
            THEN scan(Tail(items), seen, warned)
            ELSE IF ~ColonIn(str(it.k, it.v))
                 THEN scan(Tail(items), seen, warned)
                 ELSE scan(Tail(items), seen \cup {it.k}, Append(warned, it.k))

\* detect_datetimeish_tags without the _SEEN.add(k) of line 165
detect_datetimeish_tags_without_add(r, seen) ==
    [seen |-> seen, warned |-> scan(exif_items(r, 1), seen, <<>>).warned]

\* lines 155-168: _SEEN after the call and the tags it warned about, in order
detect_datetimeish_tags(r, seen) == scan(exif_items(r, 1), seen, <<>>)

\* check_media with the return of line 144 left out
check_media_falls_through(r, current_mtime) ==
    IF current_mtime # Row_mtime(r)
    THEN <<Diag(StaleError)>> \o checks(r)
    ELSE checks(r)

\* the whole stream check_media(row) yields, given what get_media_mtime returns
check_media(r, current_mtime) ==
    LET db_mtime == Row_mtime(r)
    IN IF current_mtime # db_mtime
       THEN <<Diag(StaleError)>>
       ELSE checks(r)

\* the exception that ends the iteration of check_media(row), "no" when it is exhausted
check_media_raised(r, current_mtime) ==
    IF current_mtime # Row_mtime(r) THEN "no" ELSE checks_raised(r)

\* check_media with detect_datetimeish_tags yielding a diagnostic for each tag it flags
check_media_call_yields_flagged(r, current_mtime, seen) ==
    LET stale == current_mtime # Row_mtime(r)
        det == IF stale THEN [seen |-> seen, warned |-> <<>>]
               ELSE detect_datetimeish_tags(r, seen)
    IN [stream |-> [i \in 1..Len(det.warned) |-> Diag(<<"contains a colon">>)]
                   \o check_media(r, current_mtime),
        raised |-> check_media_raised(r, current_mtime),
        seen |-> det.seen,
        warned |-> det.warned]

\* one exhaustive iteration of check_media(row) in a process whose _SEEN is seen
check_media_call(r, current_mtime, seen) ==
    LET stale == current_mtime # Row_mtime(r)
        det == IF stale THEN [seen |-> seen, warned |-> <<>>]
               ELSE detect_datetimeish_tags(r, seen)
    IN [stream |-> check_media(r, current_mtime),
        raised |-> check_media_raised(r, current_mtime),
        seen |-> det.seen,
        warned |-> det.warned]

----------------------------------------------------------------------------
(* exiftool_set_tag and the three Fix classes.  What the file system, the  *)
(* subprocess and the timezone lookup answer is an input of the call.      *)

\* '.jpg' in path
PathContainsJpg(path) == ContainsJpg(path.dir) \/ ContainsJpg(path.suffix)

\* exiftool_set_tag with shutil.copy2 moved after the loop over cmds
exiftool_set_tag_backup_last(path, tag, value, io) ==
    LET backup(ok) == <<[ev |-> "backup", path |-> path, ok |-> ok]>>
        cmd(what, rc) == <<[ev |-> "audit", path |-> path, cmd |-> what],
                           [ev |-> "exiftool", path |-> path, cmd |-> what, tag |-> tag,
                            value |-> value, rc |-> rc]>>
    IN IF ~PathContainsJpg(path)
       THEN [did |-> <<>>, raised |-> "AssertionError"]
       ELSE IF io = "cmd1"
            THEN [did |-> cmd("tag", 1), raised |-> "CalledProcessError"]
            ELSE IF io = "cmd2"
                 THEN [did |-> cmd("tag", 0) \o cmd("UserComment", 1),
                       raised |-> "CalledProcessError"]
                 ELSE IF io = "copy"
                      THEN [did |-> cmd("tag", 0) \o cmd("UserComment", 0) \o backup(FALSE),
                            raised |-> "OSError"]
                      ELSE [did |-> cmd("tag", 0) \o cmd("UserComment", 0) \o backup(TRUE),
                            raised |-> "no"]

\* exiftool_set_tag with subprocess.call in place of subprocess.check_call
exiftool_set_tag_unchecked(path, tag, value, io) ==
    LET backup(ok) == <<[ev |-> "backup", path |-> path, ok |-> ok]>>
        cmd(what, rc) == <<[ev |-> "audit", path |-> path, cmd |-> what],
                           [ev |-> "exiftool", path |-> path, cmd |-> what, tag |-> tag,
                            value |-> value, rc |-> rc]>>
    IN IF ~PathContainsJpg(path)
       THEN [did |-> <<>>, raised |-> "AssertionError"]
       ELSE IF io = "copy"
            THEN [did |-> backup(FALSE), raised |-> "OSError"]
            ELSE [did |-> backup(TRUE) \o cmd("tag", IF io = "cmd1" THEN 1 ELSE 0)
                          \o cmd("UserComment", IF io = "cmd2" THEN 1 ELSE 0),
                  raised |-> "no"]

\* io: where the call meets a failure ("copy", "cmd1", "cmd2"), or "ok";
\* the result is what the call did, in order, and the exception it raised
exiftool_set_tag(path, tag, value, io) ==
    LET backup(ok) == <<[ev |-> "backup", path |-> path, ok |-> ok]>>
        cmd(what, rc) == <<[ev |-> "audit", path |-> path, cmd |-> what],
                           [ev |-> "exiftool", path |-> path, cmd |-> what, tag |-> tag,
                            value |-> value, rc |-> rc]>>
    IN IF ~PathContainsJpg(path)
       THEN [did |-> <<>>, raised |-> "AssertionError"]
       ELSE IF io = "copy"
            THEN [did |-> backup(FALSE), raised |-> "OSError"]
            ELSE IF io = "cmd1"
                 THEN [did |-> backup(TRUE) \o cmd("tag", 1), raised |-> "CalledProcessError"]
                 ELSE IF io = "cmd2"
                      THEN [did |-> backup(TRUE) \o cmd("tag", 0) \o cmd("UserComment", 1),
                            raised |-> "CalledProcessError"]
                      ELSE [did |-> backup(TRUE) \o cmd("tag", 0) \o cmd("UserComment", 0),
                            raised |-> "no"]

\* lines 470-474 of FixOffsetFromGPS.offset_s: the string for a UTC offset of tots seconds
offset_string(tots) ==
    LET sign == IF tots >= 0 THEN "+" ELSE "-"
        abs  == IF tots >= 0 THEN tots ELSE -tots
        hh   == abs \div 3600
        mm   == abs % 3600
    IN <<sign>> \o Fmt(hh, 2) \o <<":">> \o Fmt(mm, 2)

\* self.offset_s as a plain property: the body runs at every read, nothing is stored
offset_s_uncached(fixer, tz) ==
    IF IsNone(tz)
    THEN [fixer |-> fixer, value |-> <<>>,
          did |-> <<[ev |-> "infer", path |-> fixer.path, tz |-> tz]>>,
          raised |-> "AssertionError"]
    ELSE [fixer |-> fixer, value |-> offset_string(The(tz)),
          did |-> <<[ev |-> "infer", path |-> fixer.path, tz |-> tz]>>, raised |-> "no"]

\* reading self.offset_s: a cached_property runs its body only when the instance has
\* no stored value.  tz: the UTC offset in seconds the lookup gives, <<>> when it fails
offset_s(fixer, tz) ==
    IF ~IsNone(fixer.offset_s)
    THEN [fixer |-> fixer, value |-> The(fixer.offset_s), did |-> <<>>, raised |-> "no"]
    ELSE IF IsNone(tz)
         THEN [fixer |-> fixer, value |-> <<>>,
               did |-> <<[ev |-> "infer", path |-> fixer.path, tz |-> tz]>>,
               raised |-> "AssertionError"]
         ELSE [fixer |-> [fixer EXCEPT !.offset_s = Some(offset_string(The(tz)))],
               value |-> offset_string(The(tz)),
               did |-> <<[ev |-> "infer", path |-> fixer.path, tz |-> tz]>>, raised |-> "no"]

\* fixer.description
description(fixer, tz) ==
    IF fixer.kind = "FixOffsetFromGPS"
    THEN LET o == offset_s(fixer, tz)
         IN [fixer |-> o.fixer, did |-> o.did, raised |-> o.raised,
             text |-> [set |-> fixer.tag, how |-> "to", arg |-> o.value]]
    ELSE [fixer |-> fixer, did |-> <<>>, raised |-> "no",
          text |-> IF fixer.kind = "_Fix"
                   THEN [set |-> fixer.tag, how |-> "from the filename", arg |-> The(fixer.value)]
                   ELSE [set |-> fixer.tag, how |-> "from OffsetTime", arg |-> <<>>]]

\* fixer.fix()
fix(fixer, tz, io) ==
    IF fixer.kind = "FixOffsetFromGPS"
    THEN LET o == offset_s(fixer, tz)
         IN IF o.raised # "no"
            THEN [fixer |-> o.fixer, did |-> o.did, raised |-> o.raised]
            ELSE LET w == exiftool_set_tag(fixer.path, fixer.tag, o.value, io)
                 IN [fixer |-> o.fixer, did |-> o.did \o w.did, raised |-> w.raised]
    ELSE IF fixer.mime # "image/jpeg"
         THEN [fixer |-> fixer, did |-> <<>>, raised |-> "AssertionError"]
         ELSE LET w == exiftool_set_tag(fixer.path, fixer.tag, The(fixer.value), io)
              IN [fixer |-> fixer, did |-> w.did, raised |-> w.raised]

----------------------------------------------------------------------------
(* The rows db.query() can yield and what the environment can answer *)

DbMtime == "2020-06-01T10:00:00+00:00"

Mtimes == {DbMtime, "2021-03-04T09:30:00+00:00"}

GoodLat == <<"5", "2", ".", "5", " ", "N">>

GoodLon == <<"1", "3", ".", "4", " ", "E">>

DtGood == DtTag("plain", <<2020, 5, 1>>, <<12, 0, 0>>)

GpsDtGood == DtTag("Z", <<2020, 5, 1>>, <<10, 0, 0>>)

StemText == Stem("text", <<0, 0, 0>>, <<0, 0, 0>>, 0)

StemPlain == Stem("d8_d6", <<2020, 1, 1>>, <<12, 34, 56>>, 0)

OffsetValue == <<"+", "0", "1", ":", "0", "0">>

SonyValue == <<"2", "0", "2", "0", ":", "0", "5", ":", "0", "1">>

Dirs == {"/pics"}

\* a row of the table, column by column and key by key
Record(dir, stem, suffix, mime, lat, lon, gps_dt, dto, cd, oto, ot, tz, sony, software) ==
    [path |-> [dir |-> dir, serial |-> 0, stem |-> stem, suffix |-> suffix],
     mtime |-> DbMtime,
     MIMEType |-> mime,
     GPSLatitude |-> lat,
     GPSLongitude |-> lon,
     GPSDateTime |-> gps_dt,
     DateTimeOriginal |-> dto,
     CreateDate |-> cd,
     OffsetTimeOriginal |-> oto,
     exif |-> [OffsetTime |-> ot, OffsetTimeDigitized |-> None, TimeZone |-> tz,
               SonyDateTime |-> sony, Software |-> software]]

MkRow(dir, stem, suffix, mime, gps, dto, cd, oto, ot) ==
    [path |-> [dir |-> dir, serial |-> 0, stem |-> stem, suffix |-> suffix],
     mtime |-> DbMtime,
     MIMEType |-> mime,
     GPSLatitude |-> IF gps THEN Some(GoodLat) ELSE None,
     GPSLongitude |-> IF gps THEN Some(GoodLon) ELSE None,
     GPSDateTime |-> Some(GpsDtGood),
     DateTimeOriginal |-> dto,
     CreateDate |-> cd,
     OffsetTimeOriginal |-> oto,
     exif |-> [OffsetTime |-> ot, OffsetTimeDigitized |-> None, TimeZone |-> None,
               SonyDateTime |-> None, Software |-> None]]

\* the kinds of file the runs meet
Rows ==
    UNION {
      { \* a JPEG with every tag in place, named without a timestamp
        MkRow(d, StemText, ".jpg", "image/jpeg", TRUE, Some(DtGood), None, Some(OffsetValue), None),
        \* a JPEG without dates or position whose name carries the timestamp
        MkRow(d, StemPlain, ".jpg", "image/jpeg", FALSE, None, None, None, Some(OffsetValue)),
        \* a JPEG with date and position but no OffsetTimeOriginal
        MkRow(d, StemPlain, ".jpg", "image/jpeg", TRUE, Some(DtGood), None, None, Some(OffsetValue)),
        MkRow(d, StemPlain, ".jpg", "image/jpeg", TRUE, Some(DtGood), None, None, None),
        \* HEIC content, named .jpg and named .heic
        MkRow(d, StemPlain, ".jpg", "image/heic", TRUE, Some(DtGood), None, None, None),
        MkRow(d, StemPlain, ".heic", "image/heic", TRUE, Some(DtGood), None, None, None),
        MkRow(d, StemPlain, ".heic", "image/heic", FALSE, Some(DtGood), None, None, Some(OffsetValue)),
        \* a video without CreateDate
        MkRow(d, StemPlain, ".mp4", "video/mp4", TRUE, None, None, None, None),
        \* a JPEG whose latitude has no reference, whose GPSDateTime has no Z, whose
        \* DateTimeOriginal is zeroed and whose name carries month 13; this one and the
        \* next have a tag tags.py does not list
        Record(d, Stem("d8_d6", <<2020, 13, 1>>, <<12, 34, 56>>, 0), ".jpg", "image/jpeg",
               Some(<<"5", "2", ".", "5">>), Some(GoodLon),
               Some(DtTag("plain", <<2020, 5, 1>>, <<10, 0, 0>>)),
               Some(DtTag("plain", <<0, 0, 0>>, <<0, 0, 0>>)), None, None, None, None,
               Some(SonyValue), None),
        \* a JPEG from 1850 with a latitude only, no GPSDateTime and a free-text name
        Record(d, StemText, ".jpg", "image/jpeg", Some(GoodLat), None, None,
               Some(DtTag("plain", <<1850, 5, 1>>, <<12, 0, 0>>)), None, None, None, None,
               Some(SonyValue), None)
      } : d \in Dirs }

SubDir == "/pics/2020"

ConfigDirs == {"/pics", SubDir}

\* the kinds of file the runs with a custom Config meet, in two directories
ConfigRows ==
    \* a JPEG without dates or position whose name carries the timestamp
    {Record("/pics", StemPlain, ".jpg", "image/jpeg", None, None, Some(GpsDtGood),
            None, None, None, Some(OffsetValue), None, None, None)}
    \* a JPEG with every tag in place and two tags tags.py does not list
    \cup {Record(d, StemPlain, ".jpg", "image/jpeg", Some(GoodLat), Some(GoodLon), Some(GpsDtGood),
                 Some(DtGood), None, Some(OffsetValue), None, None,
                 Some(SonyValue), Some(<<"G", "I", "M", "P">>)) : d \in ConfigDirs}
    \* the same tags, both with a colon, on a JPEG named without a timestamp
    \cup {Record(d, StemText, ".jpg", "image/jpeg", Some(GoodLat), Some(GoodLon), Some(GpsDtGood),
                 Some(DtGood), None, Some(OffsetValue), None, None,
                 Some(SonyValue), Some(<<"1", ":", "2">>)) : d \in ConfigDirs}

\* the values one row can hold, tag by tag
Mimes == {"image/jpeg", "image/heic", "video/mp4", "video/quicktime", "video/x-msvideo"}

Suffix(mime) ==
    IF mime = "image/jpeg" THEN ".jpg"
    ELSE IF mime = "image/heic" THEN ".heic"
    ELSE IF mime = "video/mp4" THEN ".mp4"
    ELSE IF mime = "video/quicktime" THEN ".mov"
    ELSE ".avi"

Latitudes == {None, Some(GoodLat), Some(<<"5", "2", ".", "5">>)}

Longitudes == {None, Some(GoodLon), Some(<<"1", "\n", "E">>)}

GpsDateTimes == {None, Some(GpsDtGood), Some(DtTag("plain", <<2020, 5, 1>>, <<10, 0, 0>>))}

Stems == {StemText, StemPlain,
          Stem("d8_d9", <<2020, 1, 1>>, <<12, 34, 56>>, 789),
          Stem("d8_d6_d3", <<2020, 1, 1>>, <<12, 34, 56>>, 7),
          Stem("d8_d6", <<2020, 13, 1>>, <<12, 34, 56>>, 0)}

DtZero == DtTag("plain", <<0, 0, 0>>, <<0, 0, 0>>)

Originals == {None, Some(DtGood), Some(DtZero), Some(DtTag("plain", <<1850, 5, 1>>, <<12, 0, 0>>))}

CreateDates == {None, Some(DtGood), Some(DtTag("plain", <<2020, 5, 1>>, <<24, 0, 0>>))}

Offsets == {None, Some(OffsetValue)}

\* OffsetTimeDigitized and TimeZone of a row: neither, or one of the two
Extras == {[otd |-> None, tz |-> None],
           [otd |-> Some(OffsetValue), tz |-> None],
           [otd |-> None, tz |-> Some(OffsetValue)]}

\* the rows check_media is applied to on its own
CheckRows ==
    {[Record("/pics", stem, Suffix(mime), mime, lat, lon, gps_dt, dto, cd, oto, ot, x.tz, None, None)
        EXCEPT !.exif.OffsetTimeDigitized = x.otd] :
        stem \in Stems, mime \in Mimes, lat \in Latitudes, lon \in Longitudes,
        gps_dt \in GpsDateTimes, dto \in Originals, cd \in CreateDates,
        oto \in Offsets, ot \in Offsets, x \in Extras}

\* the UTC offsets, in seconds, the timezone lookup can give; <<>> when it finds none
Lookups == {None, Some(7200), Some(19800), Some(-12600)}

\* what the lookup can answer when this instance is read: it is consulted only by
\* a FixOffsetFromGPS that has no stored offset_s
Asked(fixer) ==
    IF fixer.kind = "FixOffsetFromGPS" /\ IsNone(fixer.offset_s) THEN Lookups ELSE {None}

\* what click.prompt can return; it is not called once auto_apply is set
Choices == IF auto_apply THEN {"-"} ELSE {"y", "n", "a", "x"}

\* where a call of exiftool_set_tag can fail
IOs == {"ok", "copy", "cmd1", "cmd2"}

\* why the loop skips a row, or "ok"
Gates == IF config = "default" THEN {"filtered", "missing", "ok"}
         ELSE {"excluded", "filtered", "missing", "ok"}

----------------------------------------------------------------------------
(* check_all_media *)

NoCheck == [gate |-> "none", current_mtime |-> "", stream |-> <<>>, ignore |-> <<>>, logged |-> <<>>,
            warned |-> <<>>]

\* errs_per_directory is a dict: its entries in insertion order
HasDir(errs, d) == \E i \in 1..Len(errs) : errs[i].d = d

Touch(errs, d) == IF HasDir(errs, d) THEN errs ELSE Append(errs, [d |-> d, count |-> 0])

\* errs_per_directory[d] += 1 once per row that has something to log
Bump_once_per_row(errs, d, n) ==
    [i \in 1..Len(errs) |-> IF errs[i].d = d /\ n > 0 THEN [errs[i] EXCEPT !.count = @ + 1] ELSE errs[i]]

Bump(errs, d, n) ==
    [i \in 1..Len(errs) |-> IF errs[i].d = d THEN [errs[i] EXCEPT !.count = @ + n] ELSE errs[i]]

RECURSIVE Insert(_, _)
\* where sorted(..., key=count), a stable sort, puts an entry that came after those of s
Insert(s, e) ==
    IF Len(s) = 0 THEN <<e>>
    ELSE IF s[Len(s)].count <= e.count THEN Append(s, e)
    ELSE Append(Insert(SubSeq(s, 1, Len(s) - 1), e), s[Len(s)])

RECURSIVE Sorted(_)
Sorted(errs) ==
    IF Len(errs) = 0 THEN <<>>
    ELSE Insert(Sorted(SubSeq(errs, 1, Len(errs) - 1)), errs[Len(errs)])

NonZero(e) == e.count # 0

\* the loop of lines 549-552 over errs_per_directory.items() as they are
summary_unsorted(errs) == SelectSeq(errs, NonZero)

\* lines 547-552: the lines of the directory summary
summary(errs) == SelectSeq(Sorted(errs), NonZero)

\* the diagnostics of a stream that config.ignore_error lets through, in order
RECURSIVE Logged(_, _)
Logged(stream, ignore) ==
    IF Len(stream) = 0 THEN <<>>
    ELSE LET n == Len(stream)
             front == Logged(SubSeq(stream, 1, n - 1), SubSeq(ignore, 1, n - 1))
         IN IF ignore[n] THEN front ELSE Append(front, stream[n])

\* row_fixer without the test 'row_fixer is None' of line 537: the last pair wins
row_fixer_keeps_last(stream, ignore) ==
    LET with_fix == {i \in 1..Len(stream) : ~ignore[i] /\ HasFix(stream[i])}
    IN IF with_fix = {} THEN None
       ELSE Some(stream[CHOOSE i \in with_fix : \A j \in with_fix : i >= j])

\* lines 520-538: what row_fixer holds when the stream of a row is exhausted
row_fixer(stream, ignore) ==
    LET with_fix == {i \in 1..Len(stream) : ~ignore[i] /\ HasFix(stream[i])}
    IN IF with_fix = {} THEN None
       ELSE Some(stream[CHOOSE i \in with_fix : \A j \in with_fix : i <= j])

\* what config.ignore_error can answer for the diagnostics of a stream
Ignores(stream) ==
    IF config = "default" THEN {[i \in 1..Len(stream) |-> FALSE]}
    ELSE [1..Len(stream) -> BOOLEAN]

Init ==
    /\ apply_fixes \in BOOLEAN
    /\ dir_summary \in BOOLEAN
    /\ config \in {"default", "custom"}
    /\ pc = "rows"
    /\ nrows = 0
    /\ row = None
    /\ checked = NoCheck
    /\ errs_per_directory = <<>>
    /\ fixers = <<>>
    /\ k = 0
    /\ auto_apply = FALSE
    /\ out = <<>>
    /\ raised = "no"
    /\ _SEEN = TAGS_WITH_COLON
    /\ warnings = <<>>

\* lines 499-545: one iteration of the loop over db.query(), which yields one of rows
QueryRow(rows) ==
    /\ pc = "rows"
    /\ nrows < MaxRows
    /\ \E r0 \in rows, gate \in Gates, current_mtime \in Mtimes :
         LET r == [r0 EXCEPT !.path.serial = nrows + 1]
             path == Row_path(r)
             d == Parent(path)
             run == check_media_call(r, current_mtime, _SEEN)
             stream == run.stream
         IN /\ nrows' = nrows + 1
            /\ row' = Some(r)
            /\ IF gate # "ok"
               THEN /\ checked' = [NoCheck EXCEPT !.gate = gate]
                    /\ UNCHANGED <<errs_per_directory, fixers, pc, raised, _SEEN, warnings>>
               ELSE \E ignore \in Ignores(stream) :
                      LET rf == row_fixer(stream, ignore)
                          logged == Logged(stream, ignore)
                      IN /\ checked' = [gate |-> gate, current_mtime |-> current_mtime,
                                        stream |-> stream,
                                        ignore |-> ignore, logged |-> logged,
                                        warned |-> run.warned]
                         /\ errs_per_directory' = Bump(Touch(errs_per_directory, d), d, Len(logged))
                         /\ _SEEN' = run.seen
                         /\ warnings' = warnings \o run.warned
                         /\ IF run.raised # "no"
                            THEN /\ pc' = "failed"
                                 /\ raised' = run.raised
                                 /\ fixers' = fixers
                            ELSE /\ pc' = pc
                                 /\ raised' = raised
                                 /\ fixers' = IF IsNone(rf) THEN fixers
                                              ELSE Append(fixers, [path |-> path, err |-> The(rf).err,
                                                                   fixer |-> The(The(rf).fix)])
    /\ UNCHANGED <<apply_fixes, dir_summary, config, k, auto_apply, out>>

\* EndOfRows with the loop of lines 558-560 left out
EndOfRows_without_preview ==
    /\ pc = "rows"
    /\ out' = IF dir_summary
              THEN Append(out, [ev |-> "summary", lines |-> summary(errs_per_directory)])
              ELSE out
    /\ IF apply_fixes /\ Len(fixers) > 0
       THEN pc' = "offer" /\ k' = 1
       ELSE pc' = "done" /\ k' = k
    /\ UNCHANGED <<apply_fixes, dir_summary, config, nrows, row, checked,
                   errs_per_directory, fixers, auto_apply, raised, _SEEN, warnings>>

\* lines 547-555: db.query() is exhausted
EndOfRows ==
    /\ pc = "rows"
    /\ out' = IF dir_summary
              THEN Append(out, [ev |-> "summary", lines |-> summary(errs_per_directory)])
              ELSE out
    /\ IF apply_fixes /\ Len(fixers) > 0
       THEN pc' = "preview" /\ k' = 1
       ELSE pc' = "done" /\ k' = k
    /\ UNCHANGED <<apply_fixes, dir_summary, config, nrows, row, checked,
                   errs_per_directory, fixers, auto_apply, raised, _SEEN, warnings>>

\* lines 558-564: one iteration of the loop that prints the suggested fixes
Preview ==
    /\ pc = "preview"
    /\ \E tz \in Asked(fixers[k].fixer) :
         LET f == fixers[k]
             d == description(f.fixer, tz)
         IN IF d.raised # "no"
            THEN /\ pc' = "failed"
                 /\ raised' = d.raised
                 /\ out' = out \o d.did
                 /\ UNCHANGED <<fixers, k>>
            ELSE /\ out' = out \o d.did
                             \o <<[ev |-> "preview", path |-> f.path, err |-> f.err, text |-> d.text]>>
                 /\ fixers' = [fixers EXCEPT ![k].fixer = d.fixer]
                 /\ raised' = raised
                 /\ IF k = Len(fixers)
                    THEN pc' = "offer" /\ k' = 1
                    ELSE pc' = pc /\ k' = k + 1
    /\ auto_apply' = FALSE
    /\ UNCHANGED <<apply_fixes, dir_summary, config, nrows, row, checked, errs_per_directory,
                   _SEEN, warnings>>

\* verdict with 'n' falling through to the fix
verdict_n_applies(auto, cr) ==
    IF ~auto
    THEN IF cr = "x" THEN [act |-> "return", auto |-> auto]
         ELSE IF cr = "a" THEN [act |-> "fix", auto |-> TRUE]
         ELSE [act |-> "fix", auto |-> auto]
    ELSE [act |-> "fix", auto |-> auto]

\* verdict with 'x' skipping only the current fix
verdict_x_continues(auto, cr) ==
    IF ~auto
    THEN IF cr = "x" THEN [act |-> "continue", auto |-> auto]
         ELSE IF cr = "n" THEN [act |-> "continue", auto |-> auto]
         ELSE IF cr = "a" THEN [act |-> "fix", auto |-> TRUE]
         ELSE [act |-> "fix", auto |-> auto]
    ELSE [act |-> "fix", auto |-> auto]

\* verdict with 'a' not setting auto_apply
verdict_a_once(auto, cr) ==
    IF ~auto
    THEN IF cr = "x" THEN [act |-> "return", auto |-> auto]
         ELSE IF cr = "n" THEN [act |-> "continue", auto |-> auto]
         ELSE [act |-> "fix", auto |-> auto]
    ELSE [act |-> "fix", auto |-> auto]

\* lines 569-586: what the loop body does with the answer cr of click.prompt, which
\* is asked only while auto_apply is unset
verdict(auto, cr) ==
    IF ~auto
    THEN IF cr = "x" THEN [act |-> "return", auto |-> auto]
         ELSE IF cr = "n" THEN [act |-> "continue", auto |-> auto]
         ELSE IF cr = "a" THEN [act |-> "fix", auto |-> TRUE]
         ELSE [act |-> "fix", auto |-> auto]
    ELSE [act |-> "fix", auto |-> auto]

\* lines 565-587: one iteration of the loop that offers the fixes
Offer ==
    /\ pc = "offer"
    /\ \E tz \in Asked(fixers[k].fixer), cr \in Choices, io \in IOs :
       \E tz2 \in Asked(description(fixers[k].fixer, tz).fixer) :
         LET f == fixers[k]
             d == description(f.fixer, tz)
             shown == out \o d.did
                          \o <<[ev |-> "offer", path |-> f.path, err |-> f.err, text |-> d.text]>>
             asked == IF auto_apply THEN shown
                      ELSE Append(shown, [ev |-> "prompt", path |-> f.path, cr |-> cr])
             v == verdict(auto_apply, cr)
             a == fix(d.fixer, tz2, io)
             next == IF k = Len(fixers) THEN "done" ELSE "offer"
         IN IF d.raised # "no"
            THEN /\ pc' = "failed"
                 /\ raised' = d.raised
                 /\ out' = out \o d.did
                 /\ UNCHANGED <<fixers, k, auto_apply>>
            ELSE /\ auto_apply' = v.auto
                 /\ IF v.act = "return"
                    THEN /\ pc' = "done"
                         /\ out' = asked
                         /\ fixers' = [fixers EXCEPT ![k].fixer = d.fixer]
                         /\ UNCHANGED <<k, raised>>
                    ELSE IF v.act = "continue"
                    THEN /\ pc' = next
                         /\ k' = k + 1
                         /\ out' = asked
                         /\ fixers' = [fixers EXCEPT ![k].fixer = d.fixer]
                         /\ UNCHANGED raised
                    ELSE /\ out' = Append(asked, [ev |-> "fix", path |-> f.path]) \o a.did
                         /\ fixers' = [fixers EXCEPT ![k].fixer = a.fixer]
                         /\ IF a.raised # "no"
                            THEN pc' = "failed" /\ raised' = a.raised /\ k' = k
                            ELSE pc' = next /\ raised' = raised /\ k' = k + 1
    /\ UNCHANGED <<apply_fixes, dir_summary, config, nrows, row, checked, errs_per_directory,
                   _SEEN, warnings>>

Next == QueryRow(Rows) \/ EndOfRows \/ Preview \/ Offer

InitDefault == Init /\ config = "default" /\ dir_summary = FALSE

\* a run with the Config of config.py
Spec == InitDefault /\ [][Next]_vars

InitCustom == Init /\ config = "custom" /\ apply_fixes = FALSE

NextCustom == QueryRow(ConfigRows) \/ EndOfRows

\* a run with a user-supplied Config, fixes not requested
SpecConfig == InitCustom /\ [][NextCustom]_vars

----------------------------------------------------------------------------
(* Reading the record of a run *)

Events == 1..Len(out)

FilesTouched == {"backup", "audit", "exiftool"}

\* the row of the current iteration was checked and its file had changed since the cache
StaleChecked ==
    /\ checked.gate = "ok"
    /\ checked.current_mtime # Row_mtime(The(row))

\* the pending fix of a path, as an index of fixers
Pending(path) == {j \in 1..Len(fixers) : fixers[j].path = path}

----------------------------------------------------------------------------
(* C1 *)

\* C1: a record whose live modification time differs from the cached one gets exactly
\* one diagnostic, the bare cache-stale message without a Fix, and no Fix of it is
\* collected
C1_StaleYieldsOnlyCacheStale ==
    StaleChecked =>
        /\ Len(checked.stream) = 1
        /\ checked.stream[1].err = StaleError
        /\ ~HasFix(checked.stream[1])
        /\ Pending(Row_path(The(row))) = {}

\* a stale record whose sub-checks would have yielded diagnostics with fixes
C1_Witness ==
    /\ StaleChecked
    /\ \E i \in 1..Len(checks(The(row))) : HasFix(checks(The(row))[i])
    /\ Len(checked.logged) = 1

----------------------------------------------------------------------------
(* C2 *)

\* the diagnostics with a Fix in the stream of the current row, and those of them
\* that config.ignore_error let through
Pairs == {i \in 1..Len(checked.stream) : HasFix(checked.stream[i])}

KeptPairs == {i \in Pairs : ~checked.ignore[i]}

\* the entry of fixers holds the pair yielded at position i of the stream
Retained(i) ==
    \E j \in Pending(Row_path(The(row))) :
        /\ fixers[j].err = checked.stream[i].err
        /\ fixers[j].fixer = The(checked.stream[i].fix)

----------------------------------------------------------------------------
(* C3 - C6, C8: the offer loop *)

IsPrompt(i, answers) == out[i].ev = "prompt" /\ out[i].cr \in answers

IsFix(i) == out[i].ev = "fix"

\* the invocations of fix() on the Fix of a path
FixesOf(path) == {i \in Events : IsFix(i) /\ out[i].path = path}

\* the position in fixers of the Fix of the event i
PosOf(i) == CHOOSE j \in 1..Len(fixers) : fixers[j].path = out[i].path

\* C3: fix() is invoked at most once per collected Fix, and only when fixes were requested
\* and the user answered y or a at its prompt or a at an earlier prompt; a Fix answered n
\* is not applied and the next pending Fix is still offered; with fixes not requested
\* nothing is applied and no file is touched
C3_AppliedOnlyWhenAccepted ==
    /\ \A j \in 1..Len(fixers) : Cardinality(FixesOf(fixers[j].path)) <= 1
    /\ \A i \in Events : IsFix(i) =>
           /\ apply_fixes
           /\ \/ \E m \in 1..(i - 1) : IsPrompt(m, {"y", "a"}) /\ out[m].path = out[i].path
              \/ \E m \in 1..(i - 1) : IsPrompt(m, {"a"})
    /\ \A i \in Events : IsPrompt(i, {"n"}) =>
           /\ FixesOf(out[i].path) = {}
           /\ PosOf(i) < Len(fixers) =>
                  \/ pc = "offer" /\ k = PosOf(i) + 1
                  \/ \E m \in (i + 1)..Len(out) :
                         out[m].ev = "offer" /\ out[m].path = fixers[PosOf(i) + 1].path
    /\ ~apply_fixes => \A i \in Events : out[i].ev \notin ({"fix", "prompt"} \cup FilesTouched)

\* a Fix was skipped with n and a later one was applied
C3_Witness ==
    /\ pc = "done"
    /\ \E i \in Events : IsPrompt(i, {"n"}) /\
           \E m \in (i + 1)..Len(out) : out[m].ev = "exiftool" /\ out[m].rc = 0

\* C4: the answer x ends the run at once: the Fix it was asked for and the later ones are
\* not applied, nothing more is printed or asked, and what was done before stays done
C4_AbortEndsRun ==
    \A i \in Events : IsPrompt(i, {"x"}) =>
        /\ i = Len(out)
        /\ pc = "done"
        /\ \A j \in PosOf(i)..Len(fixers) : FixesOf(fixers[j].path) = {}

\* x was answered with a later Fix still pending
C4_Witness ==
    \E i \in Events : IsPrompt(i, {"x"}) /\ PosOf(i) < Len(fixers)

\* C5: after the answer a at the prompt of a Fix, no prompt is shown any more, and that
\* Fix and the later ones are applied in list order: all of them once the run is done
C5_ApplyAllRemaining ==
    \A i \in Events : IsPrompt(i, {"a"}) =>
        /\ \A m \in (i + 1)..Len(out) : out[m].ev # "prompt"
        /\ \A m \in (i + 1)..Len(out) : IsFix(m) => PosOf(m) >= PosOf(i)
        /\ \A m, n \in (i + 1)..Len(out) : (IsFix(m) /\ IsFix(n) /\ m < n) => PosOf(m) < PosOf(n)
        /\ \A j \in PosOf(i)..Len(fixers) :
               \/ FixesOf(fixers[j].path) # {}
               \/ pc = "offer" /\ k <= j
               \/ pc = "failed"

\* a was answered for a Fix that was not the last, and the run went through
C5_Witness ==
    /\ pc = "done"
    /\ \E i \in Events : IsPrompt(i, {"a"}) /\ PosOf(i) < Len(fixers)

\* the preview line of the pending Fix j was printed before the event i
Previewed(j, i) ==
    \E m \in 1..(i - 1) :
        /\ out[m].ev = "preview"
        /\ out[m].path = fixers[j].path
        /\ out[m].err = fixers[j].err
        /\ out[m].text = description(fixers[j].fixer, None).text

\* C6: path, diagnostic and description of every pending Fix are printed before the first
\* prompt and before any fix() is invoked, and the preview pass touches no file
C6_PreviewBeforeOffer ==
    /\ \A i \in Events : out[i].ev \in ({"prompt", "fix"} \cup FilesTouched) =>
           \A j \in 1..Len(fixers) : Previewed(j, i)
    /\ pc = "preview" => \A i \in Events : out[i].ev \notin FilesTouched

\* a prompt was shown with two Fixes pending
C6_Witness ==
    /\ Len(fixers) >= 2
    /\ \E i \in Events : out[i].ev = "prompt"

----------------------------------------------------------------------------
(* C7 - C10: the Fix classes *)

\* C7: fix() on a Fix of a record whose MIME type is not image/jpeg ends in an assertion
\* error before a backup is copied, an audit line is written or exiftool is run,
\* whatever the path of the record
C7_NonJpegApplyAborts ==
    \A i \in Events : (IsFix(i) /\ fixers[PosOf(i)].fixer.mime # "image/jpeg") =>
        /\ raised = "AssertionError"
        /\ \A m \in Events : out[m].ev \in FilesTouched => out[m].path # out[i].path

\* the event i is a failure inside fix(): a copy or an exiftool run that failed, or a
\* call whose assertion on the MIME type or on the path does not hold
Failure(i) ==
    \/ out[i].ev = "exiftool" /\ out[i].rc # 0
    \/ out[i].ev = "backup" /\ ~out[i].ok
    \/ /\ IsFix(i)
       /\ \/ ~PathContainsJpg(out[i].path)
          \/ /\ fixers[PosOf(i)].fixer.kind # "FixOffsetFromGPS"
             /\ fixers[PosOf(i)].fixer.mime # "image/jpeg"

\* C8: a failure inside fix() leaves the driver as an exception: it is the last thing the
\* run does, no later Fix is applied and no prompt is shown, also after the answer a
C8_FailurePropagates ==
    /\ \A i \in Events : Failure(i) =>
           /\ i = Len(out)
           /\ pc = "failed"
           /\ raised # "no"
    /\ raised # "no" => pc = "failed"

\* exiftool failed for a Fix applied without a prompt, with a Fix still pending
C8_Witness ==
    /\ pc = "failed"
    /\ auto_apply
    /\ k < Len(fixers)
    /\ out[Len(out)].ev = "exiftool"
    /\ out[Len(out)].rc # 0

\* sign, two-digit hours, colon, two-digit minutes of an offset of tots seconds
HHMM(tots) ==
    LET minutes == (IF tots >= 0 THEN tots ELSE -tots) \div 60
    IN <<IF tots >= 0 THEN "+" ELSE "-">> \o Fmt(minutes \div 60, 2) \o <<":">> \o Fmt(minutes % 60, 2)

\* C9: the offset string of a FixOffsetFromGPS is the offset the lookup gave, written as
\* sign, two-digit hours, colon and two-digit minutes between 00 and 59
C9_OffsetIsHHMM ==
    \A i \in Events : (out[i].ev = "infer" /\ ~IsNone(out[i].tz)) =>
        \A j \in Pending(out[i].path) :
            ~IsNone(fixers[j].fixer.offset_s) =>
                /\ The(fixers[j].fixer.offset_s) = HHMM(The(out[i].tz))
                /\ Len(The(fixers[j].fixer.offset_s)) = 6

\* the description lines printed for a path, and the offsets exiftool was given for it
Described(path) == {i \in Events : out[i].ev \in {"preview", "offer"} /\ out[i].path = path}

Written(path) ==
    {i \in Events : out[i].ev = "exiftool" /\ out[i].cmd = "tag" /\ out[i].path = path}

\* C10: for a FixOffsetFromGPS the inference runs at most once, whatever is read of it, and
\* every description printed and the value given to exiftool carry the same offset string
C10_OffsetInferredOnce ==
    \A j \in 1..Len(fixers) : fixers[j].fixer.kind = "FixOffsetFromGPS" =>
        LET path == fixers[j].path
        IN /\ Cardinality({i \in Events : out[i].ev = "infer" /\ out[i].path = path}) <= 1
           /\ \A m, n \in Described(path) : out[m].text = out[n].text
           /\ \A m \in Described(path), n \in Written(path) : out[n].value = out[m].text.arg
           /\ \A m \in Described(path) : Some(out[m].text.arg) = fixers[j].fixer.offset_s

\* a FixOffsetFromGPS was previewed, offered and applied
C10_Witness ==
    \E j \in 1..Len(fixers) :
        /\ fixers[j].fixer.kind = "FixOffsetFromGPS"
        /\ Cardinality(Described(fixers[j].path)) = 2
        /\ Written(fixers[j].path) # {}

\* check_media(row) iterated to its end on one row, outside check_all_media
InitCheck ==
    /\ apply_fixes = FALSE
    /\ dir_summary = FALSE
    /\ config = "default"
    /\ pc = "check"
    /\ nrows = 1
    /\ row \in {Some(r) : r \in CheckRows}
    /\ checked = NoCheck
    /\ errs_per_directory = <<>>
    /\ fixers = <<>>
    /\ k = 0
    /\ auto_apply = FALSE
    /\ out = <<>>
    /\ raised = "no"
    /\ _SEEN = TAGS_WITH_COLON
    /\ warnings = <<>>

CheckMedia ==
    /\ pc = "check"
    /\ \E current_mtime \in Mtimes :
         LET run == check_media_call(The(row), current_mtime, _SEEN)
         IN /\ checked' = [gate |-> "ok", current_mtime |-> current_mtime,
                           stream |-> run.stream,
                           ignore |-> [i \in 1..Len(run.stream) |-> FALSE],
                           logged |-> run.stream,
                           warned |-> run.warned]
            /\ _SEEN' = run.seen
            /\ warnings' = warnings \o run.warned
            /\ raised' = run.raised
            /\ pc' = IF run.raised # "no" THEN "failed" ELSE "done"
    /\ UNCHANGED <<apply_fixes, dir_summary, config, nrows, row, errs_per_directory, fixers, k,
                   auto_apply, out>>

SpecCheck == InitCheck /\ [][CheckMedia]_vars
----------------------------------------------------------------------------
(* Properties of one check_media(row) *)

\* the row has been checked and its file was as the cache recorded it
FreshChecked ==
    /\ pc \in {"done", "failed"}
    /\ ~IsNone(row)
    /\ checked.gate = "ok"
    /\ checked.current_mtime = Row_mtime(The(row))

IsGpsDatetimeDiag(d) ==
    d.err[1] \in {"missing GPSDateTime", "bad GPS datetime (likely no timezone)"}

IsTzOffsetDiag(d) ==
    \/ d.err[1] = "missing OffsetTimeOriginal: "
    \/ HasFix(d) /\ The(d.fix).kind \in {"FixOffsetFromOtherTag", "FixOffsetFromGPS"}

\* C11: the stream of a fresh record whose MIME type is video/mp4, video/quicktime or
\* video/x-msvideo holds no GPS-datetime diagnostic, no timezone-offset diagnostic
\* and no timezone Fix, whatever its other tags are
C11_VideoSkipsGpsDatetimeAndOffset ==
    (FreshChecked /\ The(row).MIMEType \in {"video/mp4", "video/quicktime", "video/x-msvideo"})
    => \A i \in 1..Len(checked.stream) :
          ~IsGpsDatetimeDiag(checked.stream[i]) /\ ~IsTzOffsetDiag(checked.stream[i])

\* an AVI without GPSDateTime and OffsetTimeOriginal that has a position, a local
\* time and OffsetTime has been checked
C11_Witness ==
    /\ FreshChecked
    /\ The(row).MIMEType = "video/x-msvideo"
    /\ IsNone(The(row).GPSDateTime)
    /\ IsNone(The(row).OffsetTimeOriginal)
    /\ ~IsNone(The(row).exif.OffsetTime)
    /\ The(row).GPSLatitude = Some(GoodLat)
    /\ The(row).GPSLongitude = Some(GoodLon)
    /\ The(row).DateTimeOriginal = Some(DtGood)
\* s is one or more digits, then any characters but a newline, then one of N, S, W, E
DigitsAnythingRef(s) ==
    \E n \in 1..(Len(s) - 1) :
       /\ \A i \in 1..n : IsDigit(s[i])
       /\ \A i \in (n + 1)..(Len(s) - 1) : s[i] # "\n"
       /\ s[Len(s)] \in {"N", "S", "W", "E"}

IsCoordinateDiag(d) ==
    d.err[1] \in {"bad gps coordinates, likely missing ref", "missing GPSPosition",
                  "bad gps coordinate tags"}

\* C12: for a fresh record, coordinate extraction gives the pair and no diagnostic
\* exactly when GPSLatitude and GPSLongitude are both present and both fully match
\* digits, anything, N/S/W/E; otherwise it gives no coordinate and exactly one
\* diagnostic: 'bad gps coordinates, likely missing ref' when both are present,
\* 'missing GPSPosition' when both are absent, 'bad gps coordinate tags' when
\* exactly one is present
C12_CoordinateExtraction ==
    FreshChecked =>
      LET r == The(row)
          lat == r.GPSLatitude
          lon == r.GPSLongitude
          res == check_coordinate(r)
          ok == /\ ~IsNone(lat) /\ ~IsNone(lon)
                /\ DigitsAnythingRef(The(lat)) /\ DigitsAnythingRef(The(lon))
          expected == IF ~IsNone(lat) /\ ~IsNone(lon)
                      THEN "bad gps coordinates, likely missing ref"
                      ELSE IF IsNone(lat) /\ IsNone(lon) THEN "missing GPSPosition"
                      ELSE "bad gps coordinate tags"
          found == {i \in 1..Len(checked.stream) : IsCoordinateDiag(checked.stream[i])}
      IN IF ok
         THEN /\ res.value = Some(<<The(lat), The(lon)>>)
              /\ res.diags = <<>>
              /\ found = {}
         ELSE /\ res.value = None
              /\ res.diags = <<Diag(<<expected>>)>>
              /\ found = {1}
              /\ checked.stream[1] = Diag(<<expected>>)

\* a record whose latitude is well formed and whose longitude is not has been checked
C12_Witness ==
    /\ FreshChecked
    /\ The(row).GPSLatitude = Some(GoodLat)
    /\ The(row).GPSLongitude = Some(<<"1", "\n", "E">>)
    /\ checked.stream[1].err = <<"bad gps coordinates, likely missing ref">>
----------------------------------------------------------------------------
(* Properties of the loop over the rows *)

\* errs_per_directory.get(d, 0)
Tally(errs, d) ==
    IF \E i \in 1..Len(errs) : errs[i].d = d
    THEN (CHOOSE e \in {errs[i] : i \in 1..Len(errs)} : e.d = d).count
    ELSE 0

\* C13: every step of a run adds to the tally of a directory exactly the number of
\* diagnostics, not marked ignorable, that the check of a row directly under it
\* yielded, when the row passed the inclusion policy and the name filter and its file
\* exists; so a tally, zero at the start, equals the count so far and never
\* decreases; a row that is excluded, filtered out or missing changes no tally, has
\* no check run and no fix collected
C13_TallyCountsKeptDiagnostics ==
    [][\A d \in ConfigDirs :
         LET before == Tally(errs_per_directory, d)
             after == Tally(errs_per_directory', d)
             queried == nrows' = nrows + 1
             kept == {i \in 1..Len(checked'.stream) : ~checked'.ignore[i]}
             added == IF queried /\ checked'.gate = "ok" /\ Parent(Row_path(The(row'))) = d
                      THEN Cardinality(kept) ELSE 0
         IN /\ after = before + added
            /\ after >= before
            /\ (queried /\ checked'.gate # "ok")
                 => /\ checked'.stream = <<>>
                    /\ errs_per_directory' = errs_per_directory
                    /\ fixers' = fixers
                    /\ warnings' = warnings
       ]_vars

\* after a row with four diagnostics of which one was ignored, a row whose file is
\* missing has been skipped
C13_Witness ==
    /\ nrows = 2
    /\ checked.gate = "missing"
    /\ \E i \in 1..Len(errs_per_directory) : errs_per_directory[i].count = 3
Summaries == {i \in 1..Len(out) : out[i].ev = "summary"}

\* C14: when a directory summary is requested, the run logs after the last row, once,
\* exactly the directories whose tally is not zero, each once and with its tally, in
\* ascending order of tally; a directory whose tally is zero is not logged
C14_SummaryAscendingNonzero ==
    /\ (pc = "done" /\ dir_summary) => Cardinality(Summaries) = 1
    /\ \A s \in Summaries :
         LET lines == out[s].lines
         IN /\ \A d \in ConfigDirs :
                 Cardinality({i \in 1..Len(lines) : lines[i].d = d})
                   = IF Tally(errs_per_directory, d) # 0 THEN 1 ELSE 0
            /\ \A i \in 1..Len(lines) :
                 /\ lines[i].d \in ConfigDirs
                 /\ lines[i].count = Tally(errs_per_directory, lines[i].d)
                 /\ lines[i].count # 0
            /\ \A i, j \in 1..Len(lines) : i < j => lines[i].count <= lines[j].count

\* a summary of two directories was logged in which the directory met second, with
\* the smaller tally, comes first
C14_Witness ==
    \E s \in Summaries :
       /\ Len(out[s].lines) = 2
       /\ Len(errs_per_directory) = 2
       /\ out[s].lines[1].d = errs_per_directory[2].d
       /\ out[s].lines[1].count < out[s].lines[2].count
----------------------------------------------------------------------------
(* What may end a run with an exception *)

Has(text) == \E i \in 1..Len(checked.stream) : checked.stream[i].err[1] = text

\* the row of the current iteration was checked, its file was as the cache recorded it,
\* and every defect of its tags and of its name is among the diagnostics
DefectsReported ==
    (checked.gate = "ok" /\ checked.current_mtime = Row_mtime(The(row))) =>
      LET r == The(row)
          video == r.MIMEType \in {"video/mp4", "video/quicktime", "video/x-msvideo"}
          gps == r.GPSDateTime
          orig == IF r.MIMEType \in {"video/mp4", "video/quicktime"}
                  THEN r.CreateDate ELSE r.DateTimeOriginal
          stem == Row_path(r).stem
          wellformed == /\ ~IsNone(r.GPSLatitude) /\ ~IsNone(r.GPSLongitude)
                        /\ DigitsAnythingRef(The(r.GPSLatitude))
                        /\ DigitsAnythingRef(The(r.GPSLongitude))
      IN /\ (~video /\ IsNone(gps)) => Has("missing GPSDateTime")
         /\ (~video /\ ~IsNone(gps) /\ ~(The(gps).layout = "Z" /\ ValidDateTime(The(gps).ymd, The(gps).hms)))
              => Has("bad GPS datetime (likely no timezone)")
         /\ IsNone(orig) => Has("missing created datetime")
         /\ (~IsNone(orig) /\ ~(The(orig).layout = "plain" /\ ValidDateTime(The(orig).ymd, The(orig).hms)))
              => Has("couldn't parse")
         /\ (~IsNone(orig) /\ The(orig).layout = "plain" /\ ValidDateTime(The(orig).ymd, The(orig).hms)
                /\ The(orig).ymd[1] \notin 1900..2099)
              => Has("bad date")
         /\ ~wellformed => \E i \in 1..Len(checked.stream) : IsCoordinateDiag(checked.stream[i])
         /\ stem.shape = "text" => Has("couldn't extract timestamp from the filename")
         /\ (stem.shape # "text" /\ ~ValidDateTime(stem.ymd, stem.hms))
              => Has("couldn't parse timestamp from the filename")

\* the exception left fixer.fix() of the Fix the loop over fixers is at
AbortedInApply == k \in 1..Len(fixers) /\ FixesOf(fixers[k].path) # {}

\* the exception left the read of fixer.description of a FixOffsetFromGPS, whose
\* inference of the offset is the last thing the run did
AbortedInDescription ==
    /\ k \in 1..Len(fixers)
    /\ fixers[k].fixer.kind = "FixOffsetFromGPS"
    /\ FixesOf(fixers[k].path) = {}
    /\ Len(out) > 0
    /\ out[Len(out)].ev = "infer"
    /\ out[Len(out)].path = fixers[k].path

----------------------------------------------------------------------------
(* The warnings about tags tags.py does not list *)

\* the tags a step warned about
NewWarnings == {warnings'[i] : i \in (Len(warnings) + 1)..Len(warnings')}

\* C16: over the rows checked in one process, a step warns about a tag only if the
\* tag is outside the catalog of tags.py, was not warned about before, and has a value
\* with a colon in the row just checked; it warns once about it; _SEEN only grows, by
\* the tags warned about; a row that is stale or skipped adds nothing to _SEEN and
\* gives no warning
C16_WarnOncePerUnknownColonTag ==
    [][/\ _SEEN \subseteq _SEEN'
       /\ _SEEN' = _SEEN \cup NewWarnings
       /\ Len(warnings') >= Len(warnings)
       /\ SubSeq(warnings', 1, Len(warnings)) = warnings
       /\ Len(warnings') - Len(warnings) = Cardinality(NewWarnings)
       /\ \A t \in NewWarnings :
            /\ t \notin TAGS_WITH_COLON
            /\ \A i \in 1..Len(warnings) : warnings[i] # t
            /\ ~IsNone(Row_exif(The(row'), t))
            /\ \E i \in 1..Len(str(t, The(Row_exif(The(row'), t)))) :
                   str(t, The(Row_exif(The(row'), t)))[i] = ":"
            /\ checked'.gate = "ok"
            /\ checked'.current_mtime = Row_mtime(The(row'))
       /\ (nrows' = nrows + 1
             /\ (checked'.gate # "ok" \/ checked'.current_mtime # Row_mtime(The(row'))))
            => (_SEEN' = _SEEN /\ warnings' = warnings)
      ]_vars

\* after a row that gave a warning for SonyDateTime and one for Software, a fresh row
\* that has SonyDateTime with a colon again has been checked without a warning
C16_Witness ==
    /\ nrows = 2
    /\ warnings = <<"SonyDateTime", "Software">>
    /\ checked.gate = "ok"
    /\ checked.current_mtime = Row_mtime(The(row))
    /\ The(row).exif.SonyDateTime = Some(SonyValue)
    /\ The(row).exif.Software = Some(<<"G", "I", "M", "P">>)
----------------------------------------------------------------------------
(* The order of the diagnostics *)

\* the sub-check a diagnostic comes from, by its text: 1 coordinate, 2 GPS datetime,
\* 3 file name, 4 original datetime, 5 the fallback for a missing one, 6 offset
SubCheckOf(d) ==
    IF IsCoordinateDiag(d) THEN 1
    ELSE IF IsGpsDatetimeDiag(d) THEN 2
    ELSE IF d.err[1] \in {"couldn't extract timestamp from the filename",
                          "couldn't parse timestamp from the filename"} THEN 3
    ELSE IF d.err[1] \in {"couldn't parse", "bad date"} THEN 4
    ELSE IF d.err[1] = "missing created datetime" THEN 5
    ELSE IF IsTzOffsetDiag(d) THEN 6
    ELSE 0

\* C17: the diagnostics of a fresh record come in the order of the sub-checks:
\* coordinate, GPS datetime, file name, original datetime, fallback, offset; and they
\* are, Fix for Fix, the ones a process that has checked no other record yields for
\* the record, whatever _SEEN holds by then
C17_FixedOrderWhateverSeen ==
    (checked.gate = "ok" /\ checked.current_mtime = Row_mtime(The(row))) =>
      /\ \A i \in 1..Len(checked.stream) : SubCheckOf(checked.stream[i]) \in 1..6
      /\ \A i, j \in 1..Len(checked.stream) :
            i < j => SubCheckOf(checked.stream[i]) <= SubCheckOf(checked.stream[j])
      /\ checked.stream
           = check_media_call(The(row), checked.current_mtime, TAGS_WITH_COLON).stream

\* after a row that was warned about for SonyDateTime, a fresh row that has this tag
\* too has been checked and has a diagnostic of each of the six sub-checks
C17_Witness ==
    /\ nrows = 2
    /\ checked.gate = "ok"
    /\ checked.current_mtime = Row_mtime(The(row))
    /\ The(row).exif.SonyDateTime = Some(SonyValue)
    /\ checked.warned = <<>>
    /\ warnings = <<"SonyDateTime">>
    /\ \A n \in 1..6 : \E i \in 1..Len(checked.stream) : SubCheckOf(checked.stream[i]) = n
----------------------------------------------------------------------------
(* exiftool_set_tag, call by call *)

\* the commands exiftool ran for a path with exit status 0
Succeeded(path, what) ==
    {j \in Events : /\ out[j].ev = "exiftool" /\ out[j].path = path
                    /\ out[j].cmd = what /\ out[j].rc = 0}

\* the call of fixer.fix() at event i has returned to the loop over fixers
Returned(i) == ~(pc = "failed" /\ k = PosOf(i))

\* C18: a call of the tag-setting operation that returns normally has written both
\* the tag and the comment; when one of the two, or none, was written the call ended
\* with an exception that left the driver
C18_BothWrittenOrFailed ==
    \A i \in Events : IsFix(i) =>
        LET path == out[i].path
            both == Succeeded(path, "tag") # {} /\ Succeeded(path, "UserComment") # {}
        IN /\ Returned(i) => both
           /\ ~both => (pc = "failed" /\ raised # "no" /\ k = PosOf(i))

\* the tag was written, the comment was not, and the run has ended with the exception
C18_Witness ==
    /\ pc = "failed"
    /\ raised = "CalledProcessError"
    /\ \E i \in Events :
          /\ IsFix(i)
          /\ Succeeded(out[i].path, "tag") # {}
          /\ Succeeded(out[i].path, "UserComment") = {}
          /\ out[Len(out)].ev = "exiftool"
          /\ out[Len(out)].cmd = "UserComment"
          /\ out[Len(out)].path = out[i].path

\* C19: every command exiftool runs comes right after the audit-log line of that
\* command and after the completed backup copy of the file, which precedes the first
\* command; when the backup copy fails no command runs for the file
C19_BackupAndAuditFirst ==
    /\ \A j \in Events : out[j].ev = "exiftool" =>
          /\ j > 1
          /\ out[j - 1].ev = "audit"
          /\ out[j - 1].path = out[j].path
          /\ out[j - 1].cmd = out[j].cmd
          /\ \E b \in 1..(j - 1) :
                /\ out[b].ev = "backup" /\ out[b].path = out[j].path /\ out[b].ok
                /\ \A a \in 1..b : out[a].path = out[j].path => out[a].ev \notin {"audit", "exiftool"}
    /\ \A b \in Events : (out[b].ev = "backup" /\ ~out[b].ok) =>
          /\ b = Len(out)
          /\ \A j \in Events : out[j].path = out[b].path => out[j].ev \notin {"audit", "exiftool"}

\* both commands ran for one file, and for the next file the backup copy failed
C19_Witness ==
    /\ pc = "failed"
    /\ out[Len(out)].ev = "backup"
    /\ ~out[Len(out)].ok
    /\ \E j \in Events :
          /\ out[j].ev = "exiftool"
          /\ out[j].cmd = "UserComment"
          /\ out[j].rc = 0
          /\ out[j].path # out[Len(out)].path
----------------------------------------------------------------------------
(* The fallback for a missing original datetime *)

Fallbacks == {i \in 1..Len(checked.stream) : checked.stream[i].err[1] = "missing created datetime"}

\* C20: for a fresh record the fallback yields exactly one 'missing created datetime'
\* diagnostic when the original datetime resolved to none, and nothing when it
\* resolved to a timestamp; the diagnostic has a Fix exactly when the file name gave
\* a timestamp, and the Fix sets SubSecDateTimeOriginal when the name has the
\* sub-second digits and DateTimeOriginal when it has not
C20_FallbackOnlyWhenNoOriginal ==
    FreshChecked =>
      LET r == The(row)
          original == check_original_datetime(r).value
          filename == check_filename_datetime(r).value
          stem == Row_path(r).stem
      IN /\ Cardinality(Fallbacks) = IF IsNone(original) THEN 1 ELSE 0
         /\ \A i \in Fallbacks :
              /\ HasFix(checked.stream[i]) <=> ~IsNone(filename)
              /\ HasFix(checked.stream[i]) =>
                    /\ The(checked.stream[i].fix).kind = "_Fix"
                    /\ The(checked.stream[i].fix).tag
                         = IF The(filename).has_subsec
                           THEN "SubSecDateTimeOriginal" ELSE "DateTimeOriginal"
                    /\ The(filename).has_subsec <=> stem.shape \in {"d8_d9", "d8_d6_d3"}

\* a JPEG without DateTimeOriginal whose name has the milliseconds after a second
\* underscore has been checked, and the Fix of its fallback sets SubSecDateTimeOriginal
C20_Witness ==
    /\ FreshChecked
    /\ The(row).MIMEType = "image/jpeg"
    /\ IsNone(The(row).DateTimeOriginal)
    /\ Row_path(The(row)).stem.shape = "d8_d6_d3"
    /\ \E i \in Fallbacks :
          /\ HasFix(checked.stream[i])
          /\ The(checked.stream[i].fix).tag = "SubSecDateTimeOriginal"
----------------------------------------------------------------------------
(* The timezone-offset step *)

\* the diagnostics of the timezone-offset step, as indices of the stream
OffsetDiags == {i \in 1..Len(checked.stream) : IsTzOffsetDiag(checked.stream[i])}

IsSecondary(d) == Len(d.err) >= 2 /\ d.err[2] = "maybe you can figure it out from"

----------------------------------------------------------------------------
(* Original-datetime resolution, on rows that differ in the MIME type and in *)
(* DateTimeOriginal and CreateDate only                                      *)

\* the values of a datetime tag: missing, well formed, not of the layout
\* YYYY:MM:DD HH:MM:SS, zeroed, and around both ends of the window
DateValues ==
    {None, Some(DtGood), Some(DtZero),
     Some(DtTag("iso", <<2020, 5, 1>>, <<12, 0, 0>>)),
     Some(DtTag("plain", <<1850, 5, 1>>, <<12, 0, 0>>)),
     Some(DtTag("plain", <<1900, 1, 1>>, <<0, 0, 0>>)),
     Some(DtTag("plain", <<1900, 1, 1>>, <<0, 0, 1>>)),
     Some(DtTag("plain", <<1900, 6, 15>>, <<12, 0, 0>>)),
     Some(DtTag("plain", <<2099, 12, 31>>, <<23, 59, 59>>)),
     Some(DtTag("plain", <<2100, 1, 1>>, <<0, 0, 0>>))}

OriginalRows ==
    {Record("/pics", StemPlain, Suffix(mime), mime, Some(GoodLat), Some(GoodLon), Some(GpsDtGood),
            dto, cd, None, None, None, None, None) :
        mime \in Mimes, dto \in DateValues, cd \in DateValues}

InitOriginal ==
    /\ apply_fixes = FALSE
    /\ dir_summary = FALSE
    /\ config = "default"
    /\ pc = "check"
    /\ nrows = 1
    /\ row \in {Some(r) : r \in OriginalRows}
    /\ checked = NoCheck
    /\ errs_per_directory = <<>>
    /\ fixers = <<>>
    /\ k = 0
    /\ auto_apply = FALSE
    /\ out = <<>>
    /\ raised = "no"
    /\ _SEEN = TAGS_WITH_COLON
    /\ warnings = <<>>

SpecOriginal == InitOriginal /\ [][CheckMedia]_vars

\* the diagnostics of original-datetime resolution, as indices of the stream
OriginalDiags ==
    {i \in 1..Len(checked.stream) : checked.stream[i].err[1] \in {"couldn't parse", "bad date"}}

\* what C22 says of a fresh record, given which parsed timestamps are in the window
OriginalResolution(InWindow(_)) ==
    FreshChecked =>
      LET r == The(row)
          tag == IF r.MIMEType \in {"video/mp4", "video/quicktime"}
                 THEN r.CreateDate ELSE r.DateTimeOriginal
          res == check_original_datetime(r)
          parses == The(tag).layout = "plain" /\ ValidDateTime(The(tag).ymd, The(tag).hms)
      IN IF IsNone(tag)
         THEN res.value = None /\ OriginalDiags = {} /\ Cardinality(Fallbacks) = 1
         ELSE IF parses /\ InWindow(The(tag))
         THEN /\ res.value = Some([ymd |-> The(tag).ymd, hms |-> The(tag).hms])
              /\ OriginalDiags = {}
              /\ Fallbacks = {}
         ELSE /\ res.value = None
              /\ Cardinality(OriginalDiags) = 1
              /\ Cardinality(Fallbacks) = 1

AfterYear1900BeforeYear2100(t) == t.ymd[1] > 1900 /\ t.ymd[1] < 2100

After1900Jan1Before2100Jan1(t) ==
    /\ t.ymd[1] \in 1900..2099
    /\ t.ymd \o t.hms # <<1900, 1, 1, 0, 0, 0>>

\* C22 as claimed: resolution reads CreateDate for video/mp4 and video/quicktime and
\* DateTimeOriginal for the other types; it returns the timestamp, without a
\* diagnostic, exactly when the tag is present, parses as YYYY:MM:DD HH:MM:SS and
\* lies strictly after the year 1900 and strictly before the year 2100; a missing
\* tag gives none and no diagnostic; a tag that does not parse or lies outside gives
\* none and one diagnostic
C22_WindowOfYears == OriginalResolution(AfterYear1900BeforeYear2100)

\* C22: the same, with the window strictly after 1900-01-01 00:00:00 and strictly
\* before 2100-01-01 00:00:00, so that the rest of the year 1900 is inside
C22_WindowOfInstants == OriginalResolution(After1900Jan1Before2100Jan1)

\* a JPEG whose DateTimeOriginal is in June 1900 has been checked and got neither a
\* diagnostic of the resolution nor the fallback
C22_Witness ==
    /\ FreshChecked
    /\ The(row).MIMEType = "image/jpeg"
    /\ The(row).DateTimeOriginal = Some(DtTag("plain", <<1900, 6, 15>>, <<12, 0, 0>>))
    /\ OriginalDiags = {}
    /\ Fallbacks = {}
====
